---- MODULE Spec2Model ----
(***************************************************************************)
(* A model of the wallpaper style classifier of nowa-panel                 *)
(* (services/WallpaperAnalyzer.js) and of the inputs its caller feeds it.  *)
(*                                                                         *)
(* JavaScript numbers are IEEE-754 binary64 values.  The statistics the    *)
(* analyzer computes (mean, variance, standard deviation) are sums,        *)
(* products and quotients of such values, each rounded to nearest-even, so *)
(* the model carries them as binary64 values too: a significand of exactly *)
(* 53 bits held as a little-endian sequence of 14-bit limbs, and a binary  *)
(* exponent.  Subnormals, infinities and overflow cannot arise from the    *)
(* byte values 0..255 and the sample counts of the model and are left out. *)
(***************************************************************************)
EXTENDS Integers, Sequences, FiniteSets, TLC

----------------------------------------------------------------------------
(* Natural numbers of arbitrary size: little-endian limbs, no leading zero *)
(* limb, zero is the empty sequence.                                       *)

RECURSIVE BitLenInt(_)
BitLenInt(n) == IF n = 0 THEN 0 ELSE 1 + BitLenInt(n \div 2)

Base == 2^14
LimbBits == BitLenInt(Base) - 1

\* a function as a table of its values, so that each is computed once
Tabulated(f) == f @@ <<>>

Max(a, b) == IF a >= b THEN a ELSE b
Min(a, b) == IF a <= b THEN a ELSE b

Limb(a, i) == IF i <= Len(a) THEN a[i] ELSE 0

RECURSIVE BTrim(_)
BTrim(a) ==
  IF a = <<>> THEN a
  ELSE IF a[Len(a)] = 0 THEN BTrim(SubSeq(a, 1, Len(a) - 1)) ELSE a

RECURSIVE BFromInt(_)
BFromInt(n) == IF n = 0 THEN <<>> ELSE <<n % Base>> \o BFromInt(n \div Base)

RECURSIVE BToInt(_)
BToInt(a) == IF a = <<>> THEN 0 ELSE a[1] + Base * BToInt(Tail(a))

BAdd(a, b) ==
  LET n == Max(Len(a), Len(b))
      RECURSIVE go(_, _)
      go(i, c) ==
        IF i > n THEN (IF c = 0 THEN <<>> ELSE <<c>>)
        ELSE LET s == Limb(a, i) + Limb(b, i) + c
             IN  <<s % Base>> \o go(i + 1, s \div Base)
  IN  go(1, 0)

\* a - b for a >= b
BSub(a, b) ==
  LET RECURSIVE go(_, _)
      go(i, borrow) ==
        IF i > Len(a) THEN <<>>
        ELSE LET s == a[i] - Limb(b, i) - borrow
             IN  IF s < 0 THEN <<s + Base>> \o go(i + 1, 1)
                 ELSE <<s>> \o go(i + 1, 0)
  IN  BTrim(go(1, 0))

\* -1, 0 or 1 as a < b, a = b, a > b
BCmp(a, b) ==
  LET RECURSIVE go(_)
      go(i) ==
        IF i = 0 THEN 0
        ELSE IF a[i] < b[i] THEN -1
        ELSE IF a[i] > b[i] THEN 1
        ELSE go(i - 1)
  IN  IF Len(a) < Len(b) THEN -1
      ELSE IF Len(a) > Len(b) THEN 1
      ELSE go(Len(a))

\* a * k for 0 <= k < 2^16
BMulSmall(a, k) ==
  LET RECURSIVE go(_, _)
      go(i, c) ==
        IF i > Len(a) THEN (IF c = 0 THEN <<>> ELSE <<c>>)
        ELSE LET s == a[i] * k + c
             IN  <<s % Base>> \o go(i + 1, s \div Base)
  IN  IF k = 0 THEN <<>> ELSE go(1, 0)

RECURSIVE Zeros(_)
Zeros(n) == IF n = 0 THEN <<>> ELSE <<0>> \o Zeros(n - 1)

BShlLimbs(a, n) == IF a = <<>> THEN a ELSE Zeros(n) \o a

BMul(a, b) ==
  LET RECURSIVE go(_)
      go(i) ==
        IF i > Len(b) THEN <<>>
        ELSE BAdd(BShlLimbs(BMulSmall(a, b[i]), i - 1), go(i + 1))
  IN  go(1)

\* a * 2^k
BShl(a, k) == BShlLimbs(BMulSmall(a, 2^(k % LimbBits)), k \div LimbBits)

\* quotient and remainder of a by n, 0 < n < 2^17
BDivSmall(a, n) ==
  LET RECURSIVE go(_, _)
      go(i, r) ==
        IF i = 0 THEN [q |-> <<>>, r |-> r]
        ELSE LET cur == r * Base + a[i]
                 rest == go(i - 1, cur % n)
             IN  [q |-> Append(rest.q, cur \div n), r |-> rest.r]
      res == go(Len(a), 0)
  IN  [q |-> BTrim(res.q), r |-> res.r]

\* the low limbs of a number and the quotient and remainder of its high limbs
\* put together: the quotient, and the remainder above the low limbs
BShrJoin(low, d) ==
  [q |-> d.q, r |-> BTrim(IF d.r = 0 THEN low ELSE Append(low, d.r))]

\* quotient and remainder of a by 2^k
BShr(a, k) ==
  LET nl == Min(k \div LimbBits, Len(a))
  IN  BShrJoin(SubSeq(a, 1, nl),
               BDivSmall(SubSeq(a, nl + 1, Len(a)), 2^(k % LimbBits)))

BBitLen(a) == IF a = <<>> THEN 0 ELSE (Len(a) - 1) * LimbBits + BitLenInt(a[Len(a)])

\* r, the bits of the square root of a above position bit, extended by the n
\* bits from position bit down
RECURSIVE BSqrtBits(_, _, _, _)
BSqrtBits(a, r, bit, n) ==
  IF n = 0 THEN r
  ELSE LET cand == BAdd(r, BShl(<<1>>, bit))
       IN  IF BCmp(BMul(cand, cand), a) <= 0
           THEN BSqrtBits(a, cand, bit - 1, n - 1)
           ELSE BSqrtBits(a, r, bit - 1, n - 1)

\* the bits of the square root of a from position lo up, a limb at a time
RECURSIVE BSqrtAbove(_, _, _)
BSqrtAbove(a, lo, bits) ==
  IF lo >= bits THEN <<>>
  ELSE BSqrtBits(a, BSqrtAbove(a, lo + LimbBits, bits),
                 Min(lo + LimbBits, bits) - 1, Min(LimbBits, bits - lo))

\* floor of the square root of a, a < 2^(2 * bits)
BSqrt(a, bits) == BSqrtAbove(a, 0, bits)

----------------------------------------------------------------------------
(* binary64 values: nan, or (-1)^neg * m * 2^e with m = 0 (then e = 0 and  *)
(* neg = FALSE) or 2^52 <= m < 2^53.  Every operation computes the exact   *)
(* result and rounds it once, to nearest, ties to even, as IEEE-754 does.  *)

Precision == 52 + 1

FZero == [nan |-> FALSE, neg |-> FALSE, m |-> <<>>, e |-> 0]
FNaN == [nan |-> TRUE, neg |-> FALSE, m |-> <<>>, e |-> 0]

IsZero(a) == ~a.nan /\ a.m = <<>>

\* a quotient and remainder by 2^d rounded to nearest, ties to even: the
\* quotient, or the quotient plus one; half is 2^(d - 1)
FNearest(qr, half, sticky) ==
  LET c == BCmp(qr.r, half)
  IN  IF c = 1 \/ (c = 0 /\ (sticky \/ qr.q[1] % 2 = 1))
      THEN BAdd(qr.q, <<1>>) ELSE qr.q

\* (-1)^neg * q * 2^e for a q of Precision bits, or of one bit more (then a
\* power of two)
FNormal(neg, q, e) ==
  IF BBitLen(q) > Precision
  THEN [nan |-> FALSE, neg |-> neg, m |-> BShr(q, 1).q, e |-> e + 1]
  ELSE [nan |-> FALSE, neg |-> neg, m |-> q, e |-> e]

\* FRound of an M of bl bits, bl > 0
FRoundBits(neg, M, e, sticky, bl) ==
  IF bl <= Precision
  THEN [nan |-> FALSE, neg |-> neg,
        m |-> BShl(M, Precision - bl), e |-> e - (Precision - bl)]
  ELSE FNormal(neg,
               FNearest(BShr(M, bl - Precision),
                        BShl(<<1>>, bl - Precision - 1), sticky),
               e + (bl - Precision))

\* the binary64 nearest to (M + f) * 2^e, where 0 <= f < 1 and f > 0 iff
\* sticky; M has more than Precision bits whenever sticky
FRound(neg, M, e, sticky) ==
  IF M = <<>> THEN FZero ELSE FRoundBits(neg, M, e, sticky, BBitLen(M))

FFromInt(n) == FRound(FALSE, BFromInt(n), 0, FALSE)

FNeg(a) == IF a.nan \/ a.m = <<>> THEN a ELSE [a EXCEPT !.neg = ~a.neg]

FMul(a, b) ==
  IF a.nan \/ b.nan THEN FNaN
  ELSE IF a.m = <<>> \/ b.m = <<>> THEN FZero
  ELSE FRound(a.neg # b.neg, BMul(a.m, b.m), a.e + b.e, FALSE)

\* the sum of (-1)^hneg * H * 2^e and (-1)^lneg * L * 2^e
FAddAligned(hneg, H, lneg, L, e) ==
  LET c == BCmp(H, L)
  IN  FRound(IF c >= 0 THEN hneg ELSE lneg,
             IF hneg = lneg THEN BAdd(H, L)
             ELSE IF c >= 0 THEN BSub(H, L) ELSE BSub(L, H),
             e, FALSE)

\* hi + lo for nonzero values with hi.e >= lo.e; a lo below the rounding
\* position of hi leaves hi as it is
FAddOrdered(hi, lo) ==
  IF hi.e - lo.e > Precision + 3 THEN hi
  ELSE FAddAligned(hi.neg, BShl(hi.m, hi.e - lo.e), lo.neg, lo.m, lo.e)

FAdd(a, b) ==
  IF a.nan \/ b.nan THEN FNaN
  ELSE IF a.m = <<>> THEN b
  ELSE IF b.m = <<>> THEN a
  ELSE FAddOrdered(IF a.e >= b.e THEN a ELSE b, IF a.e >= b.e THEN b ELSE a)

FSub(a, b) == FAdd(a, FNeg(b))

\* the binary64 nearest to (-1)^neg * (qr.q + f) * 2^e, where f > 0 iff the
\* division left a remainder
FQuotient(neg, qr, e) == FRound(neg, qr.q, e, qr.r # 0)

\* a / n for an integer n, 0 <= n < 2^17; 0 / 0 is NaN (a nonzero value is
\* never divided by zero: a sample count of 0 comes with a sum of 0)
FDivInt(a, n) ==
  IF a.nan \/ n = 0 THEN FNaN
  ELSE IF a.m = <<>> THEN FZero
  ELSE FQuotient(a.neg, BDivSmall(BShl(a.m, 20), n), a.e - 20)

\* the binary64 nearest to sqrt(X) * 2^e, S being the floor of sqrt(X)
FSqrtRounded(X, S, e) == FRound(FALSE, S, e, BMul(S, S) # X)
FSqrtScaled(X, e) == FSqrtRounded(X, BSqrt(X, 56), e)

\* Math.sqrt; the square root of a negative number is NaN
FSqrt(a) ==
  IF a.nan THEN FNaN
  ELSE IF a.m = <<>> THEN FZero
  ELSE IF a.neg THEN FNaN
  ELSE LET s == IF a.e % 2 = 0 THEN 58 ELSE 59
       IN  FSqrtScaled(BShl(a.m, s), (a.e - s) \div 2)

\* -1, 0, 1 as a < b, a = b, a > b, for values that are not NaN
FCmp(a, b) ==
  LET mag == IF a.m = <<>> THEN (IF b.m = <<>> THEN 0 ELSE -1)
             ELSE IF b.m = <<>> THEN 1
             ELSE IF a.e < b.e THEN -1
             ELSE IF a.e > b.e THEN 1
             ELSE BCmp(a.m, b.m)
  IN  IF a.neg /\ ~b.neg THEN -1
      ELSE IF ~a.neg /\ b.neg THEN 1
      ELSE IF a.neg THEN -mag ELSE mag

\* the comparisons of JavaScript: every comparison with NaN is false
FLt(a, b) == ~a.nan /\ ~b.nan /\ FCmp(a, b) = -1
FGt(a, b) == FLt(b, a)
FLe(a, b) == ~a.nan /\ ~b.nan /\ FCmp(a, b) <= 0

\* Math.max(0, a): NaN when a is NaN
MathMax0(a) == IF a.nan THEN FNaN ELSE IF a.neg THEN FZero ELSE a

\* Math.round(a) for 0 <= a < 2^30: floor(a + 1/2), as an integer; -1 stands
\* for Math.round(NaN), which is NaN
MathRound(a) ==
  IF a.nan THEN -1
  ELSE IF a.m = <<>> THEN 0
  ELSE IF a.e >= 0 THEN BToInt(BShl(a.m, a.e))
  ELSE IF -a.e > Precision + 1 THEN 0
  ELSE BToInt(BShr(BAdd(a.m, BShl(<<1>>, -a.e - 1)), -a.e).q)

\* the value of the decimal literal p / q (0.299 is 299 / 1000): the binary64
\* nearest to the quotient
FRatio(p, q) == FQuotient(FALSE, BDivSmall(BShl(BFromInt(p), 80), q), -80)

----------------------------------------------------------------------------
(* Wallpaper files and the image library.                                  *)

MaxWidth == 13
MaxHeight == 7
MaxPanelHeight == 7

PADDING == 4

\* the colours of the model's wallpapers, as <<R, G, B>> bytes
Black == <<0, 0, 0>>
White == <<255, 255, 255>>
Grey11 == <<11, 11, 11>>
Grey120 == <<120, 120, 120>>
Grey153 == <<153, 153, 153>>
Grey160 == <<160, 160, 160>>
Grey200 == <<200, 200, 200>>
Grey220 == <<220, 220, 220>>
Red == <<200, 30, 30>>
Green == <<30, 200, 30>>
Grey102 == <<102, 102, 102>>
Blue170 == <<0, 0, 170>>
Brown55 == <<55, 5, 0>>

\* a wallpaper's picture: colour a left of column SplitColumn, colour b from it on
SplitColumn == 2 * PADDING
Contents ==
  { <<Black, Black>>, <<White, White>>, <<Grey11, Grey11>>, <<Grey153, Grey153>>,
    <<Black, White>>, <<White, Black>>, <<Grey200, Grey220>>,
    <<Grey120, Grey160>>, <<Red, Green>> }

File(w, h, alpha, c) == [ok |-> TRUE, w |-> w, h |-> h, alpha |-> alpha, a |-> c[1], b |-> c[2]]

\* a file that is missing or no raster image
Unreadable == [ok |-> FALSE, w |-> 0, h |-> 0, alpha |-> FALSE, a |-> Black, b |-> Black]

\* the wallpaper files of the model: every size from 1x1 to MaxWidth x MaxHeight
\* with two pictures, the largest size with every picture, with and without
\* an alpha channel, and an unreadable file
Files ==
  { File(w, h, FALSE, c) : w \in 1..MaxWidth, h \in 1..MaxHeight,
                           c \in { <<Grey11, Grey11>>, <<Black, White>> } }
  \cup { File(MaxWidth, MaxHeight, al, c) : al \in BOOLEAN, c \in Contents }
  \cup { Unreadable }

\* the luminance thresholds of the model, in thousandths (the preference has
\* three digits, from 0.000 to 1.000; 575 is the default)
Thresholds == {0, 400, 575, 600, 1000}

PanelHeights == 1..MaxPanelHeight

\* the regions handed to #analyzeTopRegion directly (any pixbuf, not only a
\* crop of a model file): up to MaxSliceWidth x MaxSliceHeight pixels
MaxSliceWidth == 9
MaxSliceHeight == 5

\* the pictures of those regions: pixel (x, y) has colour number
\* (x div 2 + y) mod Len(palette) of the palette
Uniform102 == <<Grey102>>
Tied == <<Blue170, Brown55>>
TiedAmongOthers == <<Grey120, Grey200, Blue170, Brown55, Blue170, Grey200>>
Varied == <<Black, White, Red, Green, Grey153, Grey11, Grey160>>
Palettes == { <<Black>>, <<White>>, Uniform102, Tied, TiedAmongOthers, Varied }

paint(palette, x, y) == palette[(((x \div 2) + y) % Len(palette)) + 1]

\* the bytes between the end of a row's pixels and the start of the next row
RowGaps == {0, 5}

\* a pixbuf of w x h pixels: rows of w * channels bytes, rowstride bytes
\* apart; the alpha byte is 255, the bytes between rows are 0
Slice(w, h, alpha, gap, palette) ==
  LET channels == IF alpha THEN 4 ELSE 3
      rowstride == w * channels + gap
      len == IF h = 0 THEN 0 ELSE (h - 1) * rowstride + w * channels
  IN  [width |-> w, height |-> h, rowstride |-> rowstride,
       channels |-> channels,
       pixels |-> [i \in 0..(len - 1) |->
                     LET x == (i % rowstride) \div channels
                         k == (i % rowstride) % channels
                     IN  IF x >= w THEN 0
                         ELSE IF k = 3 THEN 255
                         ELSE paint(palette, x, i \div rowstride)[k + 1]]]

\* the layouts and pictures of the regions of one size: every size has two
\* pictures in the plainest layout, the largest sizes have every picture in
\* every layout
SliceKinds(w, h) ==
  { <<FALSE, 0, c>> : c \in { Varied, TiedAmongOthers } }
  \cup (IF w >= MaxSliceWidth - 1 /\ h >= MaxSliceHeight - 1
        THEN BOOLEAN \X RowGaps \X Palettes ELSE {})

SliceSizes == (1..MaxSliceWidth) \X (0..MaxSliceHeight)

\* what the image library returns for a region of height 0 inside the image:
\* no pixbuf (null), or a pixbuf of zero rows
EmptyRegionModes == {"null", "zero-rows"}

Null == [null |-> TRUE]

\* GdkPixbuf.Pixbuf.new_from_file of a readable file: rows of width * channels
\* bytes, padded to a multiple of 4 bytes; the alpha byte is 255, padding is 0
new_from_file(file) ==
  LET channels == IF file.alpha THEN 4 ELSE 3
      rowstride == ((file.w * channels + 3) \div 4) * 4
  IN  [width |-> file.w, height |-> file.h, rowstride |-> rowstride,
       channels |-> channels,
       pixels |-> [i \in 0..(rowstride * file.h - 1) |->
                     LET x == (i % rowstride) \div channels
                         k == (i % rowstride) % channels
                     IN  IF x >= file.w THEN 0
                         ELSE IF k = 3 THEN 255
                         ELSE IF x < SplitColumn THEN file.a[k + 1]
                         ELSE file.b[k + 1]]]

\* pixbuf.new_subpixbuf(x, y, w, h): the region shares the rows of its source
new_subpixbuf(src, x, y, w, h, emptyMode) ==
  IF x + w > src.width \/ y + h > src.height \/ w <= 0 THEN Null
  ELSE IF h <= 0 THEN
    IF emptyMode = "null" THEN Null
    ELSE [width |-> w, height |-> 0, rowstride |-> src.rowstride,
          channels |-> src.channels, pixels |-> <<>>]
  ELSE
    LET off == y * src.rowstride + x * src.channels
        len == (h - 1) * src.rowstride + w * src.channels
    IN  [width |-> w, height |-> h, rowstride |-> src.rowstride,
         channels |-> src.channels,
         pixels |-> [i \in 0..(len - 1) |-> src.pixels[off + i]]]

----------------------------------------------------------------------------
(* WallpaperAnalyzer                                                       *)

Half == FRatio(1, 2)
One == FFromInt(1)
C299 == FRatio(299, 1000)
C587 == FRatio(587, 1000)
C114 == FRatio(114, 1000)
C1645 == FRatio(1645, 1000)

\* pixels[i] / 255; a read past the end of the array is undefined, and
\* undefined / 255 is NaN
channel(pixels, i) ==
  IF i \in DOMAIN pixels THEN FDivInt(FFromInt(pixels[i]), 255) ELSE FNaN

\* the loop body's reading of the pixel at pixelIndex: r, g, b, the
\* luminosity, and the colour as the loop would store it in minRGB or maxRGB
\* ({ r: Math.round(r * 255), g: Math.round(g * 255), b: Math.round(b * 255) })
colour(c) == [r |-> c[0], g |-> c[1], b |-> c[2]]

readPixelRGB(rgb) ==
  [luminosity |-> FAdd(FAdd(FMul(C299, rgb[0]), FMul(C587, rgb[1])),
                       FMul(C114, rgb[2])),
   rgb |-> colour([k \in 0..2 |-> MathRound(FMul(rgb[k], FFromInt(255)))])]

readPixel(pixels, i) ==
  readPixelRGB([k \in 0..2 |-> channel(pixels, i + k)])

\* readPixel of the model's colours, computed once
Colours ==
  UNION { {c[1], c[2]} : c \in Contents }
  \cup UNION { { c[k] : k \in 1..Len(c) } : c \in Palettes }
PixelMemo == Tabulated([c \in Colours |-> readPixel([k \in 0..2 |-> c[k + 1]], 0)])

\* the reading of the pixel at byte i, from the table when its colour is there
pixelOfColour(pixels, i, c) ==
  IF c \in DOMAIN PixelMemo THEN PixelMemo[c] ELSE readPixel(pixels, i)

pixelAt(pixels, i) ==
  IF i + 2 \in DOMAIN pixels
  THEN pixelOfColour(pixels, i, <<pixels[i], pixels[i + 1], pixels[i + 2]>>)
  ELSE readPixel(pixels, i)

\* accumulate with <= and >= for < and >: the last of equal pixels is kept
accumulateLastTie(acc, px) ==
  LET isMin == FLe(px.luminosity, acc.minLuminosity)
      isMax == FLe(acc.maxLuminosity, px.luminosity)
  IN  [totalLuminosity |-> FAdd(acc.totalLuminosity, px.luminosity),
       luminositySquaredSum |->
         FAdd(acc.luminositySquaredSum, FMul(px.luminosity, px.luminosity)),
       minLuminosity |-> IF isMin THEN px.luminosity ELSE acc.minLuminosity,
       minRGB |-> IF isMin THEN px.rgb ELSE acc.minRGB,
       maxLuminosity |-> IF isMax THEN px.luminosity ELSE acc.maxLuminosity,
       maxRGB |-> IF isMax THEN px.rgb ELSE acc.maxRGB,
       sampleCount |-> acc.sampleCount + 1]

\* the rest of an iteration of the inner loop, px being the pixel it read
accumulate(acc, px) ==
  LET isMin == FLt(px.luminosity, acc.minLuminosity)
      isMax == FGt(px.luminosity, acc.maxLuminosity)
  IN  [totalLuminosity |-> FAdd(acc.totalLuminosity, px.luminosity),
       luminositySquaredSum |->
         FAdd(acc.luminositySquaredSum, FMul(px.luminosity, px.luminosity)),
       minLuminosity |-> IF isMin THEN px.luminosity ELSE acc.minLuminosity,
       minRGB |-> IF isMin THEN px.rgb ELSE acc.minRGB,
       maxLuminosity |-> IF isMax THEN px.luminosity ELSE acc.maxLuminosity,
       maxRGB |-> IF isMax THEN px.rgb ELSE acc.maxRGB,
       sampleCount |-> acc.sampleCount + 1]

\* one iteration of the inner loop
sample(acc, pixels, i) == accumulate(acc, pixelAt(pixels, i))

\* pixelIndex one byte late, so that a pixel is read as its G, B and alpha
pixelIndexOneLate(y, rowstride, x, channels) == y * rowstride + x * channels + 1

pixelIndex(y, rowstride, x, channels) == y * rowstride + x * channels

\* xOffset without the alternation
xOffsetZero(y) == 0

\* the column a sampled row starts at
xOffset(y) == IF y % 4 = 0 THEN 0 ELSE 2

\* the statements after the loops, from the variance on
statisticsOfMean(acc, meanLuminance, width, height) ==
  [meanLuminance |-> meanLuminance,
   luminanceStd |->
     FSqrt(MathMax0(FSub(FDivInt(acc.luminositySquaredSum, acc.sampleCount),
                         FMul(meanLuminance, meanLuminance)))),
   minLuminosity |-> acc.minLuminosity,
   maxLuminosity |-> acc.maxLuminosity,
   minRGB |-> acc.minRGB,
   maxRGB |-> acc.maxRGB,
   sampleCount |-> acc.sampleCount,
   width |-> width,
   height |-> height]

\* the statements after the loops
statistics(acc, width, height) ==
  statisticsOfMean(acc, FDivInt(acc.totalLuminosity, acc.sampleCount),
                   width, height)

\* the inner loop, from column x on
RECURSIVE sampleRow(_, _, _, _, _, _)
sampleRow(buf, width, rowstride, y, x, acc) ==
  IF x >= width THEN acc
  ELSE sampleRow(buf, width, rowstride, y, x + 4,
                 sample(acc, buf.pixels,
                        pixelIndex(y, rowstride, x, buf.channels)))

\* the outer loop, from row y on
RECURSIVE sampleRows(_, _, _, _, _)
sampleRows(buf, width, height, y, acc) ==
  IF y >= height THEN acc
  ELSE sampleRows(buf, width, height, y + 2,
                  sampleRow(buf, width, buf.rowstride, y, xOffset(y), acc))

analyzePixels(pixels, width, height, rowstride, channels) ==
  statistics(sampleRows([pixels |-> pixels, rowstride |-> rowstride,
                         channels |-> channels], width, height, 0,
                        [totalLuminosity |-> FZero,
                         luminositySquaredSum |-> FZero,
                         minLuminosity |-> One, maxLuminosity |-> FZero,
                         minRGB |-> [r |-> 255, g |-> 255, b |-> 255],
                         maxRGB |-> [r |-> 0, g |-> 0, b |-> 0],
                         sampleCount |-> 0]),
             width, height)

analyzeTopRegion(bgSlice) ==
  analyzePixels(bgSlice.pixels, bgSlice.width, bgSlice.height,
                bgSlice.rowstride, bgSlice.channels)

\* the pixels the inner loop visits from column x on, as <<x, y>>, after seq
RECURSIVE pixelsOfRow(_, _, _, _)
pixelsOfRow(width, y, x, seq) ==
  IF x >= width THEN seq
  ELSE pixelsOfRow(width, y, x + 4, Append(seq, <<x, y>>))

\* the pixels the outer loop visits from row y on
RECURSIVE pixelsOfRows(_, _, _, _)
pixelsOfRows(width, height, y, seq) ==
  IF y >= height THEN seq
  ELSE pixelsOfRows(width, height, y + 2, pixelsOfRow(width, y, xOffset(y), seq))

\* the pixels the loops of #analyzePixels visit, in the order of their visits
sampledPixels(width, height) == pixelsOfRows(width, height, 0, <<>>)

STD_THRESHOLD == FRatio(45, 255)

\* isBgDark with the comparison turned round
isBgDarkAbove(analysis, LUMINANCE_THRESHOLD) ==
  FGt(analysis.meanLuminance, LUMINANCE_THRESHOLD)

isBgDark(analysis, LUMINANCE_THRESHOLD) ==
  FLt(analysis.meanLuminance, LUMINANCE_THRESHOLD)

\* nearBoundary without its first conjunct
nearBoundaryEitherSide(analysis, LUMINANCE_THRESHOLD) ==
  FGt(FAdd(analysis.meanLuminance, FMul(C1645, analysis.luminanceStd)),
      LUMINANCE_THRESHOLD)

nearBoundary(analysis, LUMINANCE_THRESHOLD) ==
  /\ FLt(analysis.meanLuminance, LUMINANCE_THRESHOLD)
  /\ FGt(FAdd(analysis.meanLuminance, FMul(C1645, analysis.luminanceStd)),
         LUMINANCE_THRESHOLD)

isBusy(analysis, LUMINANCE_THRESHOLD) ==
  LET highVariance == FGt(analysis.luminanceStd, STD_THRESHOLD)
      range == FSub(analysis.maxLuminosity, analysis.minLuminosity)
      highContrast == FGt(range, Half)
  IN  highVariance \/ nearBoundary(analysis, LUMINANCE_THRESHOLD) \/ highContrast

\* the decision table with the label of AdaptivePanel in one cell
styleOfMaximized(dark, busy) ==
  IF dark THEN (IF busy THEN "maximized" ELSE "dark")
  ELSE (IF busy THEN "translucent-light" ELSE "light")

\* the decision table
styleOf(dark, busy) ==
  IF dark THEN (IF busy THEN "translucent-dark" ELSE "dark")
  ELSE (IF busy THEN "translucent-light" ELSE "light")

determineStyle(analysis, LUMINANCE_THRESHOLD) ==
  styleOf(isBgDark(analysis, LUMINANCE_THRESHOLD),
          isBusy(analysis, LUMINANCE_THRESHOLD))

\* the object the catch block returns
fallback(message) == [style |-> "dark", meanLuminance |-> Half, error |-> message]

\* a catch block that answers with the other default
catchLight(message) ==
  [style |-> "light", meanLuminance |-> Half, error |-> message]

\* what the catch block does with an exception thrown in the try block
catch(message) == fallback(message)

\* cropOf with the padding taken off the width once
cropOfOnePadding(fullWidth, fullHeight, panelHeight) ==
  [x |-> PADDING, y |-> PADDING,
   w |-> Max(1, fullWidth - PADDING),
   h |-> Max(0, Min(panelHeight, fullHeight) - PADDING)]

\* the region analyze asks the library for
cropOf(fullWidth, fullHeight, panelHeight) ==
  [x |-> PADDING, y |-> PADDING,
   w |-> Max(1, fullWidth - (PADDING * 2)),
   h |-> Max(0, Min(panelHeight, fullHeight) - PADDING)]

NoCrop == [x |-> 0, y |-> 0, w |-> 0, h |-> 0]
NoAnalysis == [sampleCount |-> -1]

\* the try block up to the call of #analyzeTopRegion, with what it did on the
\* way: the message of the exception thrown ("" when none was), the region
\* asked for (NoCrop when the file could not be decoded) and the statistics
tryAnalysis(file, panelHeight, emptyMode) ==
  IF ~file.ok
  THEN [raised |-> "Failed to open file", crop |-> NoCrop, analysis |-> NoAnalysis]
  ELSE
    LET fullPixbuf == new_from_file(file)
        crop == cropOf(fullPixbuf.width, fullPixbuf.height, panelHeight)
        bgSlice == new_subpixbuf(fullPixbuf, crop.x, crop.y, crop.w, crop.h, emptyMode)
    IN  IF bgSlice = Null
        THEN \* bgSlice.get_width() throws a TypeError
             [raised |-> "bgSlice is null", crop |-> crop, analysis |-> NoAnalysis]
        ELSE [raised |-> "", crop |-> crop, analysis |-> analyzeTopRegion(bgSlice)]

\* the value of a threshold given in thousandths
thresholdValue(t) == FRatio(t, 1000)

\* the rest of analyze: the style and the returned object, or the catch block
analyzeResult(try, luminanceThreshold) ==
  IF try.raised # "" THEN catch(try.raised)
  ELSE [style |-> determineStyle(try.analysis, thresholdValue(luminanceThreshold))]
         @@ try.analysis

\* the calls of the model, tabulated by the file's size, the panel height,
\* the file and the library's mode
FilesOfSize(w, h) == { f \in Files : f.w = w /\ f.h = h }

TryMemo ==
  Tabulated([w \in 0..MaxWidth |-> Tabulated([h \in 0..MaxHeight |->
    Tabulated([p \in PanelHeights |->
      Tabulated([k \in FilesOfSize(w, h) \X EmptyRegionModes |->
                   tryAnalysis(k[1], p, k[2])])])])])

tried(file, panelHeight, emptyMode) ==
  TryMemo[file.w][file.h][panelHeight][<<file, emptyMode>>]

\* a call of analyze: what it returned, and what its try block did
outcome(try, luminanceThreshold) ==
  [result |-> analyzeResult(try, luminanceThreshold),
   raised |-> try.raised, crop |-> try.crop]

CallMemo ==
  Tabulated([w \in 0..MaxWidth |-> Tabulated([h \in 0..MaxHeight |->
    Tabulated([p \in PanelHeights |->
      Tabulated([k \in FilesOfSize(w, h) \X EmptyRegionModes |->
        Tabulated([t \in Thresholds |-> outcome(TryMemo[w][h][p][k], t)])])])])])

called(wallpaperPath, luminanceThreshold, panelHeight, emptyMode) ==
  CallMemo[wallpaperPath.w][wallpaperPath.h][panelHeight]
          [<<wallpaperPath, emptyMode>>][luminanceThreshold]

analyze(wallpaperPath, luminanceThreshold, panelHeight, emptyMode) ==
  called(wallpaperPath, luminanceThreshold, panelHeight, emptyMode).result

----------------------------------------------------------------------------
(* The analyzer and its caller.  The caller holds the wallpaper file, the  *)
(* luminance-threshold setting and the panel height, and calls analyze     *)
(* whenever one of them changes; the analyzer holds nothing.  At first no  *)
(* call has been made.                                                     *)

VARIABLES
  emptyRegion,          \* the image library's answer to a region of height 0
  wallpaper,            \* the file at wallpaperPath
  threshold,            \* the luminance-threshold setting, in thousandths
  stripHeight,          \* the panel's height in pixels
  result,               \* what the last call of analyze returned
  raised,               \* the exception its try block threw, "" when none
  request               \* the region it asked the library for

\* a pixbuf handed to #analyzeTopRegion as it is, and a copy of it
VARIABLES
  slice,                \* the pixbuf: its size, layout and picture
  measured,             \* what its analysis returned
  copied,               \* the bytes its copy differs in, "" when there is no copy
  remeasured            \* what the analysis of the copy returned

sliceVars == <<slice, measured, copied, remeasured>>

\* the AdaptivePanel module, the settings and files it reads, the panel it styles
VARIABLES
  enabled,              \* enable() was called last, not disable()
  panelMode,            \* the panel-mode setting
  colorScheme,          \* the color-scheme setting of the desktop
  pictureUri,           \* the picture-uri setting
  pictureUriDark,       \* the picture-uri-dark setting
  disk,                 \* the file at each path
  window,               \* the window of the active workspace, if there is one
  displayHandler,       \* a 'window-created' handler of the module is connected
  isWindowMaximized,    \* #isWindowMaximized
  currentStyle,         \* #currentStyle
  styleClasses,         \* the style classes of the panel
  opacity,              \* the panel's opacity
  fileMonitor,          \* the path #fileMonitor watches
  strayMonitors,        \* the paths of monitors the module started and lost
  timers,               \* the timeouts that have not fired yet, by callback
  easing,               \* the animation of the panel has not completed yet
  evaluation            \* what the timer callback of #onWallpaperChanged did,
                        \* when it is the latest step

panelVars ==
  <<enabled, panelMode, colorScheme, pictureUri, pictureUriDark, disk, window,
    displayHandler, isWindowMaximized, currentStyle, styleClasses, opacity,
    fileMonitor, strayMonitors, timers, easing, evaluation>>

vars ==
  <<emptyRegion, wallpaper, threshold, stripHeight, result, raised, request,
    sliceVars, panelVars>>

\* analyze(wallpaperPath, threshold, stripHeight) on the given inputs
\* no call has returned yet
NoResult == [pending |-> TRUE]

\* no pixbuf is at hand
NoSlice == [w |-> 1, h |-> 0, alpha |-> FALSE, gap |-> 0, palette |-> <<Black>>]
SliceIdle ==
  slice = NoSlice /\ measured = NoResult /\ copied = "" /\ remeasured = NoResult

\* null, as the value of #currentStyle, #fileMonitor and a wallpaper path
NoStyle == "<null>"
NoMonitor == "<null>"
NoPath == "<null>"
NoWindow == [present |-> FALSE, maximized |-> FALSE, tracked |-> FALSE]
NoTimers == [evaluate |-> 0, changed |-> 0, unlock |-> 0, maximizedCheck |-> 0]
NoEvaluation ==
  [branch |-> "none", mode |-> "automatic", maximized |-> FALSE, path |-> NoPath,
   applied |-> NoStyle, monitor |-> NoMonitor, outcome |-> "none"]

\* there is no module
PanelIdle ==
  /\ enabled = FALSE /\ panelMode = "automatic" /\ colorScheme = "default"
  /\ pictureUri = "" /\ pictureUriDark = "" /\ disk = <<>>
  /\ window = NoWindow /\ displayHandler = FALSE /\ isWindowMaximized = FALSE
  /\ currentStyle = NoStyle /\ styleClasses = {} /\ opacity = 255
  /\ fileMonitor = NoMonitor /\ strayMonitors = {} /\ timers = NoTimers
  /\ easing = FALSE /\ evaluation = NoEvaluation

\* a call returns: what it returned, and what its try block did
Return(out) ==
  /\ result' = out.result
  /\ raised' = out.raised
  /\ request' = out.crop

Call(file, t, p) == Return(called(file, t, p, emptyRegion))

Init ==
  /\ emptyRegion \in EmptyRegionModes
  /\ wallpaper \in Files
  /\ threshold \in Thresholds
  /\ stripHeight \in PanelHeights
  /\ result = NoResult
  /\ raised = ""
  /\ request = NoCrop
  /\ SliceIdle
  /\ PanelIdle

\* the wallpaper file is replaced or rewritten, and analyzed
AnalyzeWallpaper(file) ==
  /\ wallpaper' = file
  /\ Call(file, threshold, stripHeight)
  /\ UNCHANGED <<emptyRegion, threshold, stripHeight, sliceVars, panelVars>>

\* the luminance-threshold setting changes, and the wallpaper is analyzed again
AnalyzeThreshold(t) ==
  /\ t # threshold
  /\ threshold' = t
  /\ Call(wallpaper, t, stripHeight)
  /\ UNCHANGED <<emptyRegion, wallpaper, stripHeight, sliceVars, panelVars>>

\* the wallpaper is analyzed again (the screen was unlocked, say) and the
\* panel, whose height is read at each call, has another height by then
AnalyzePanelHeight(p) ==
  /\ p # stripHeight
  /\ stripHeight' = p
  /\ Call(wallpaper, threshold, p)
  /\ UNCHANGED <<emptyRegion, wallpaper, threshold, sliceVars, panelVars>>

Next ==
  \/ \E file \in Files : AnalyzeWallpaper(file)
  \/ \E t \in Thresholds : AnalyzeThreshold(t)
  \/ \E p \in PanelHeights : AnalyzePanelHeight(p)

Spec == Init /\ [][Next]_vars

----------------------------------------------------------------------------
(* #analyzeTopRegion and #determineStyle on any pixbuf: lines 38 to 44 of   *)
(* analyze, for the pixbufs of the model and for copies of them that       *)
(* differ in the bytes of one kind.                                        *)

Slices ==
  UNION { { [w |-> s[1], h |-> s[2], alpha |-> k[1], gap |-> k[2], palette |-> k[3]] :
            k \in SliceKinds(s[1], s[2]) } : s \in SliceSizes }

\* the pixbuf of a given size, layout and picture
pixbuf(key) == Slice(key.w, key.h, key.alpha, key.gap, key.palette)

\* the set of the pixels the loops visit
sampledSet(width, height) ==
  { sampledPixels(width, height)[n] : n \in 1..Len(sampledPixels(width, height)) }

\* what byte i of a pixbuf is: a byte between two rows ("gap"), an alpha
\* byte, or an R, G or B byte of a pixel the loops visit or do not visit
byteKind(buf, i, visited) ==
  IF (i % buf.rowstride) \div buf.channels >= buf.width THEN "gap"
  ELSE IF (i % buf.rowstride) % buf.channels = 3 THEN "alpha"
  ELSE IF <<(i % buf.rowstride) \div buf.channels, i \div buf.rowstride>> \in visited
       THEN "sampled"
  ELSE "unsampled"

ByteKinds == {"gap", "alpha", "unsampled"}

\* a copy of the pixbuf with other values in its bytes of one kind
copyWith(buf, kind, visited) ==
  [buf EXCEPT !.pixels =
     [i \in DOMAIN buf.pixels |->
        IF byteKind(buf, i, visited) = kind
        THEN (IF buf.pixels[i] = 255 THEN 0 ELSE 255)
        ELSE buf.pixels[i]]]

copyOf(buf, kind) == copyWith(buf, kind, sampledSet(buf.width, buf.height))

\* this.#analyzeTopRegion(bgSlice) for the pixbufs of the model and their
\* copies (kind "" is the pixbuf itself), computed once
copyOrSelf(buf, kind) == IF kind = "" THEN buf ELSE copyOf(buf, kind)

AnalysisMemo ==
  Tabulated([w \in 1..MaxSliceWidth |-> Tabulated([h \in 0..MaxSliceHeight |->
    Tabulated([k \in SliceKinds(w, h) |->
      Tabulated([kind \in ByteKinds \cup {""} |->
        analyzeTopRegion(copyOrSelf(Slice(w, h, k[1], k[2], k[3]), kind))])])])])

analysisOf(key, kind) ==
  AnalysisMemo[key.w][key.h][<<key.alpha, key.gap, key.palette>>][kind]

\* const analysis = this.#analyzeTopRegion(bgSlice), the style, the return
analyzeSlice(key, kind, luminanceThreshold) ==
  analyzeResult([raised |-> "", analysis |-> analysisOf(key, kind)],
                luminanceThreshold)

InitSlice ==
  /\ slice \in Slices
  /\ threshold \in Thresholds
  /\ measured = NoResult
  /\ copied = ""
  /\ remeasured = NoResult
  /\ emptyRegion = "zero-rows"
  /\ wallpaper = Unreadable
  /\ stripHeight = 1
  /\ result = NoResult
  /\ raised = ""
  /\ request = NoCrop
  /\ PanelIdle

\* the pixbuf is analyzed
AnalyzeSlice ==
  /\ measured' = analyzeSlice(slice, "", threshold)
  /\ copied' = ""
  /\ remeasured' = NoResult
  /\ UNCHANGED <<slice, emptyRegion, wallpaper, threshold, stripHeight, result,
                 raised, request, panelVars>>

\* a copy of the pixbuf is analyzed
AnalyzeCopy(kind) ==
  /\ measured # NoResult
  /\ copied' = kind
  /\ remeasured' = analyzeSlice(slice, kind, threshold)
  /\ UNCHANGED <<slice, measured, emptyRegion, wallpaper, threshold, stripHeight,
                 result, raised, request, panelVars>>

NextSlice ==
  \/ AnalyzeSlice
  \/ \E kind \in ByteKinds : AnalyzeCopy(kind)

SliceSpec == InitSlice /\ [][NextSlice]_vars

----------------------------------------------------------------------------
(* AdaptivePanel.  One module instance is enabled and disabled by the      *)
(* shell; settings, files and windows change at any time; the timeouts the *)
(* module adds fire later, each once, in any order.                        *)

\* the callbacks due at a time (timeouts, the end of the panel's animation): an
\* event that would add one more waits
MaxPending == 2

\* the panel-mode values of the model: automatic and two of the manual modes
PanelModes == {"automatic", "dark", "light"}
ColorSchemes == {"default", "prefer-dark"}
FiveClasses == {"dark", "light", "translucent-dark", "translucent-light", "maximized"}

\* the values of picture-uri and picture-uri-dark: no picture, a file, and a
\* URI that decodeURIComponent rejects
LightUris == {"file:///a", "file:///%"}
DarkUris == {"", "file:///a"}
Paths == {"/a"}

\* the pictures a wallpaper file may hold: all white and all black
LightPicture == File(MaxWidth, MaxHeight, FALSE, <<White, White>>)
DarkPicture == File(MaxWidth, MaxHeight, FALSE, <<Black, Black>>)
Pictures == {LightPicture, DarkPicture}

\* the luminance-threshold values of the model, in thousandths
PanelThresholds == {575, 1000}

\* uri.substring(7) after 'file://' and decodeURIComponent(uri); the return
\* null after the catch block when decodeURIComponent throws
pathOfUri(uri) ==
  CASE uri = "" -> ""
    [] uri = "file:///a" -> "/a"
    [] uri = "file:///%" -> NoPath

getWallpaperPath(scheme, uri, uriDark) ==
  pathOfUri(IF scheme = "prefer-dark" THEN uriDark ELSE uri)

wallpaperPath == getWallpaperPath(colorScheme, pictureUri, pictureUriDark)

\* !wallpaperPath with the empty string counted as a path
noPathNullOnly(path) == path = NoPath

\* !wallpaperPath
noPath(path) == path = NoPath \/ path = ""

\* #detectMaximizedWindow
detectMaximizedWindow(w) == w.present /\ w.maximized

\* #applyStyle without its five calls of remove_style_class_name
applyStyleAdding(current, classes, style) ==
  IF current = style
  THEN [currentStyle |-> current, styleClasses |-> classes]
  ELSE [currentStyle |-> style, styleClasses |-> classes \cup {style}]

\* #applyStyle: #currentStyle and the panel's classes afterwards
applyStyle(current, classes, style) ==
  IF current = style
  THEN [currentStyle |-> current, styleClasses |-> classes]
  ELSE [currentStyle |-> style, styleClasses |-> (classes \ FiveClasses) \cup {style}]

\* what a call of #applyStyle did: it returned at its comparison, or it put the
\* class on a panel that had none of the five, or in the place of another
outcomeOf(current, classes, style) ==
  IF current = style THEN "kept"
  ELSE IF classes \cap FiveClasses = {} THEN "added"
  ELSE "replaced"

Styled(after) ==
  /\ currentStyle' = after.currentStyle
  /\ styleClasses' = after.styleClasses

ApplyStyle(style) == Styled(applyStyle(currentStyle, styleClasses, style))

\* the branch the timer callback of #onWallpaperChanged takes, with the
\* maximized window looked at first
branchOfMaximizedFirst(mode, maximized, path) ==
  IF maximized THEN "maximized"
  ELSE IF mode # "automatic" THEN "manual"
  ELSE IF noPath(path) THEN "nopath"
  ELSE "analyze"

\* the branch the timer callback of #onWallpaperChanged takes
branchOf(mode, maximized, path) ==
  IF mode # "automatic" THEN "manual"
  ELSE IF maximized THEN "maximized"
  ELSE IF noPath(path) THEN "nopath"
  ELSE "analyze"

\* the file the analyzer finds at a path
fileAt(files, path) == IF path \in DOMAIN files THEN files[path] ELSE Unreadable

\* GLib.timeout_add of a callback, and the timeout firing
pendingIn(pending) ==
  pending.evaluate + pending.changed + pending.unlock + pending.maximizedCheck
\* the callbacks that are due: the timeouts and the end of the animation
pendingNow == pendingIn(timers) + (IF easing THEN 1 ELSE 0)
CanAdd(n) == pendingNow + n <= MaxPending
added(pending, callback) == [pending EXCEPT ![callback] = @ + 1]
fired(pending, callback) == [pending EXCEPT ![callback] = @ - 1]

\* #onWallpaperChanged when the handlers are connected: a timeout is added
changedIf(pending, connected) == IF connected THEN added(pending, "evaluate") ELSE pending

\* #updateMaximizedState: the timeouts afterwards
updatedTimers(pending, was, state) ==
  IF was # state THEN added(pending, "evaluate") ELSE pending

\* the variables an action of the panel leaves alone in the analyzer
AnalyzerIdle ==
  /\ UNCHANGED <<emptyRegion, wallpaper, stripHeight, raised, request, sliceVars>>

NotEvaluating == evaluation' = NoEvaluation /\ result' = NoResult

InitPanel ==
  /\ enabled = FALSE
  /\ panelMode \in PanelModes
  /\ colorScheme \in ColorSchemes
  /\ pictureUri \in LightUris
  /\ pictureUriDark \in DarkUris
  /\ disk \in [Paths -> Pictures]
  /\ window = NoWindow
  /\ displayHandler = FALSE
  /\ isWindowMaximized = FALSE
  /\ currentStyle = NoStyle
  /\ styleClasses = {}
  /\ opacity = 255
  /\ fileMonitor = NoMonitor
  /\ strayMonitors = {}
  /\ timers = NoTimers
  /\ easing = FALSE
  /\ evaluation = NoEvaluation
  /\ threshold \in PanelThresholds
  /\ stripHeight = MaxPanelHeight
  /\ emptyRegion = "null"
  /\ wallpaper = Unreadable
  /\ result = NoResult
  /\ raised = ""
  /\ request = NoCrop
  /\ SliceIdle

\* wallpaperPath && wallpaperPath !== '' in #setupFileMonitor
monitorable(path) == path # NoPath /\ path # ""

\* #setupFileMonitor: #fileMonitor afterwards
monitorSetUp(monitor, path) == IF monitorable(path) THEN path ELSE monitor

\* a monitor that #fileMonitor no longer names and that was not cancelled
strayAfter(stray, monitor, path) ==
  IF monitorable(path) /\ monitor # NoMonitor THEN stray \cup {monitor} ELSE stray

\* enable()
Enable ==
  /\ ~enabled
  /\ CanAdd(2)
  /\ enabled' = TRUE
  /\ fileMonitor' = monitorSetUp(fileMonitor, wallpaperPath)
  /\ strayMonitors' = strayAfter(strayMonitors, fileMonitor, wallpaperPath)
  /\ displayHandler' = TRUE
  /\ window' = [window EXCEPT !.tracked = window.present]
  /\ timers' = added(added(timers, "changed"), "maximizedCheck")
  /\ NotEvaluating
  /\ UNCHANGED <<panelMode, colorScheme, pictureUri, pictureUriDark, disk,
                 isWindowMaximized, currentStyle, styleClasses, opacity, easing,
                 threshold>>
  /\ AnalyzerIdle

\* disable()
Disable ==
  /\ enabled
  /\ enabled' = FALSE
  /\ fileMonitor' = NoMonitor
  /\ window' = [window EXCEPT !.tracked = FALSE]
  /\ opacity' = 255
  /\ styleClasses' = styleClasses \ FiveClasses
  /\ NotEvaluating
  /\ UNCHANGED <<panelMode, colorScheme, pictureUri, pictureUriDark, disk,
                 displayHandler, isWindowMaximized, currentStyle, strayMonitors,
                 timers, easing, threshold>>
  /\ AnalyzerIdle

\* what the actions below leave alone in the module
ModuleIdle ==
  UNCHANGED <<enabled, displayHandler, isWindowMaximized, currentStyle,
              styleClasses, opacity, fileMonitor, strayMonitors, easing, window>>

\* a setting changes; its changed:: handler calls #onWallpaperChanged
SetPictureUri(uri) ==
  /\ uri # pictureUri
  /\ enabled => CanAdd(1)
  /\ pictureUri' = uri
  /\ timers' = changedIf(timers, enabled)
  /\ NotEvaluating
  /\ UNCHANGED <<panelMode, colorScheme, pictureUriDark, disk, threshold>>
  /\ ModuleIdle /\ AnalyzerIdle

SetPictureUriDark(uri) ==
  /\ uri # pictureUriDark
  /\ enabled => CanAdd(1)
  /\ pictureUriDark' = uri
  /\ timers' = changedIf(timers, enabled)
  /\ NotEvaluating
  /\ UNCHANGED <<panelMode, colorScheme, pictureUri, disk, threshold>>
  /\ ModuleIdle /\ AnalyzerIdle

SetColorScheme(scheme) ==
  /\ scheme # colorScheme
  /\ enabled => CanAdd(1)
  /\ colorScheme' = scheme
  /\ timers' = changedIf(timers, enabled)
  /\ NotEvaluating
  /\ UNCHANGED <<panelMode, pictureUri, pictureUriDark, disk, threshold>>
  /\ ModuleIdle /\ AnalyzerIdle

SetPanelMode(mode) ==
  /\ mode # panelMode
  /\ enabled => CanAdd(1)
  /\ panelMode' = mode
  /\ timers' = changedIf(timers, enabled)
  /\ NotEvaluating
  /\ UNCHANGED <<colorScheme, pictureUri, pictureUriDark, disk, threshold>>
  /\ ModuleIdle /\ AnalyzerIdle

SetThreshold(t) ==
  /\ t # threshold
  /\ enabled => CanAdd(1)
  /\ threshold' = t
  /\ timers' = changedIf(timers, enabled)
  /\ NotEvaluating
  /\ UNCHANGED <<panelMode, colorScheme, pictureUri, pictureUriDark, disk>>
  /\ ModuleIdle /\ AnalyzerIdle

\* a monitor of the module watches the path
Watched(path) == fileMonitor = path \/ path \in strayMonitors

\* a wallpaper file is written; the 'changed' handler of a monitor on it adds
\* the timeout that calls #onWallpaperChanged
WriteWallpaper(path, picture) ==
  /\ picture # disk[path]
  /\ Watched(path) => CanAdd(1)
  /\ disk' = [disk EXCEPT ![path] = picture]
  /\ timers' = IF Watched(path) THEN added(timers, "changed") ELSE timers
  /\ NotEvaluating
  /\ UNCHANGED <<panelMode, colorScheme, pictureUri, pictureUriDark, threshold>>
  /\ ModuleIdle /\ AnalyzerIdle

SettingsIdle ==
  UNCHANGED <<panelMode, colorScheme, pictureUri, pictureUriDark, disk, threshold>>

\* 'window-created' of a window that has its actor: #onWindowActorAdded
CreateWindow(maximized) ==
  /\ ~window.present
  /\ window' = [present |-> TRUE, maximized |-> maximized,
                tracked |-> displayHandler]
  /\ NotEvaluating
  /\ UNCHANGED <<enabled, displayHandler, isWindowMaximized, currentStyle,
                 styleClasses, opacity, fileMonitor, strayMonitors, easing, timers>>
  /\ SettingsIdle /\ AnalyzerIdle

\* the window is maximized or restored: 'size-changed', #updateMaximizedState
ResizeWindow ==
  /\ window.present
  /\ (window.tracked /\ isWindowMaximized # ~window.maximized) => CanAdd(1)
  /\ window' = [window EXCEPT !.maximized = ~window.maximized]
  /\ isWindowMaximized' =
       IF window.tracked THEN detectMaximizedWindow(window') ELSE isWindowMaximized
  /\ timers' =
       IF window.tracked
       THEN updatedTimers(timers, isWindowMaximized, ~window.maximized)
       ELSE timers
  /\ NotEvaluating
  /\ UNCHANGED <<enabled, displayHandler, currentStyle, styleClasses, opacity,
                 fileMonitor, strayMonitors, easing>>
  /\ SettingsIdle /\ AnalyzerIdle

\* the window is closed: its actor's 'destroy', #onWindowActorRemoved
DestroyWindow ==
  /\ window.present
  /\ window.tracked => CanAdd(1)
  /\ window' = NoWindow
  /\ timers' = IF window.tracked THEN added(timers, "maximizedCheck") ELSE timers
  /\ NotEvaluating
  /\ UNCHANGED <<enabled, displayHandler, isWindowMaximized, currentStyle,
                 styleClasses, opacity, fileMonitor, strayMonitors, easing>>
  /\ SettingsIdle /\ AnalyzerIdle

\* a monitor that nothing names any more is finalized by the collector
CollectMonitor(path) ==
  /\ path \in strayMonitors
  /\ strayMonitors' = strayMonitors \ {path}
  /\ NotEvaluating
  /\ UNCHANGED <<enabled, displayHandler, isWindowMaximized, currentStyle,
                 styleClasses, opacity, fileMonitor, easing, timers, window>>
  /\ SettingsIdle /\ AnalyzerIdle

\* the overview's 'showing'
ShowOverview ==
  /\ enabled
  /\ opacity' = 0
  /\ NotEvaluating
  /\ UNCHANGED <<enabled, displayHandler, isWindowMaximized, currentStyle,
                 styleClasses, fileMonitor, strayMonitors, easing, timers, window>>
  /\ SettingsIdle /\ AnalyzerIdle

\* the overview's 'hiding': the panel is eased in
HideOverview ==
  /\ enabled
  /\ easing \/ CanAdd(1)
  /\ opacity' = 0
  /\ easing' = TRUE
  /\ NotEvaluating
  /\ UNCHANGED <<enabled, displayHandler, isWindowMaximized, currentStyle,
                 styleClasses, fileMonitor, strayMonitors, timers, window>>
  /\ SettingsIdle /\ AnalyzerIdle

\* onComplete of the ease
CompleteEase ==
  /\ easing
  /\ easing' = FALSE
  /\ opacity' = 255
  /\ IF currentStyle # NoStyle
     THEN Styled(applyStyle(NoStyle, styleClasses, currentStyle))
     ELSE UNCHANGED <<currentStyle, styleClasses>>
  /\ NotEvaluating
  /\ UNCHANGED <<enabled, displayHandler, isWindowMaximized, fileMonitor,
                 strayMonitors, timers, window>>
  /\ SettingsIdle /\ AnalyzerIdle

\* the screen shield's 'active-changed' with the screen unlocked
UnlockScreen ==
  /\ enabled
  /\ CanAdd(1)
  /\ timers' = added(timers, "unlock")
  /\ NotEvaluating
  /\ ModuleIdle /\ SettingsIdle /\ AnalyzerIdle

\* the timeout of the unlock fires
FireUnlock ==
  /\ timers.unlock > 0
  /\ currentStyle' = NoStyle
  /\ timers' = added(fired(timers, "unlock"), "evaluate")
  /\ NotEvaluating
  /\ UNCHANGED <<enabled, displayHandler, isWindowMaximized, styleClasses, opacity,
                 fileMonitor, strayMonitors, easing, window>>
  /\ SettingsIdle /\ AnalyzerIdle

\* a timeout that calls #onWallpaperChanged fires (the initial check of
\* enable, or the one of the file monitor)
FireChanged ==
  /\ timers.changed > 0
  /\ timers' = added(fired(timers, "changed"), "evaluate")
  /\ NotEvaluating
  /\ ModuleIdle /\ SettingsIdle /\ AnalyzerIdle

\* a timeout that calls #updateMaximizedState fires
FireMaximizedCheck ==
  /\ timers.maximizedCheck > 0
  /\ isWindowMaximized' = detectMaximizedWindow(window)
  /\ timers' = updatedTimers(fired(timers, "maximizedCheck"), isWindowMaximized,
                             detectMaximizedWindow(window))
  /\ NotEvaluating
  /\ UNCHANGED <<enabled, displayHandler, currentStyle, styleClasses, opacity,
                 fileMonitor, strayMonitors, easing, window>>
  /\ SettingsIdle /\ AnalyzerIdle

\* the style the timer callback of #onWallpaperChanged applies in a branch
styleOfBranch(branch, mode, analyzed) ==
  CASE branch = "manual" -> mode
    [] branch = "maximized" -> "maximized"
    [] branch = "nopath" -> "light"
    [] branch = "analyze" -> analyzed.style

\* the callback, the branch being known
Evaluated(branch, path, analyzed) ==
  /\ ApplyStyle(styleOfBranch(branch, panelMode, analyzed))
  /\ fileMonitor' = IF branch = "analyze" THEN monitorSetUp(NoMonitor, path)
                    ELSE fileMonitor
  /\ result' = IF branch = "analyze" THEN analyzed ELSE NoResult
  /\ evaluation' = [branch |-> branch, mode |-> panelMode,
                    maximized |-> isWindowMaximized, path |-> path,
                    applied |-> styleOfBranch(branch, panelMode, analyzed),
                    monitor |-> fileMonitor,
                    outcome |-> outcomeOf(currentStyle, styleClasses,
                                          styleOfBranch(branch, panelMode, analyzed))]

\* the timer callback of #onWallpaperChanged
FireEvaluate ==
  /\ timers.evaluate > 0
  /\ timers' = fired(timers, "evaluate")
  /\ Evaluated(branchOf(panelMode, isWindowMaximized, wallpaperPath), wallpaperPath,
               analyze(fileAt(disk, wallpaperPath), threshold, stripHeight, emptyRegion))
  /\ UNCHANGED <<enabled, displayHandler, isWindowMaximized, opacity,
                 strayMonitors, easing, window>>
  /\ SettingsIdle /\ AnalyzerIdle

NextPanel ==
  \/ Enable
  \/ Disable
  \/ \E uri \in LightUris : SetPictureUri(uri)
  \/ \E uri \in DarkUris : SetPictureUriDark(uri)
  \/ \E scheme \in ColorSchemes : SetColorScheme(scheme)
  \/ \E mode \in PanelModes : SetPanelMode(mode)
  \/ \E t \in PanelThresholds : SetThreshold(t)
  \/ \E path \in Paths, picture \in Pictures : WriteWallpaper(path, picture)
  \/ \E path \in Paths : CollectMonitor(path)
  \/ \E maximized \in BOOLEAN : CreateWindow(maximized)
  \/ ResizeWindow
  \/ DestroyWindow
  \/ ShowOverview
  \/ HideOverview
  \/ CompleteEase
  \/ UnlockScreen
  \/ FireUnlock
  \/ FireChanged
  \/ FireMaximizedCheck
  \/ FireEvaluate

PanelSpec == InitPanel /\ [][NextPanel]_vars

----------------------------------------------------------------------------
(* Properties of analyze.                                                  *)

HasReturned == result # NoResult
Succeeded == HasReturned /\ raised = ""
Failed == HasReturned /\ raised # ""
LightFamily(style) == style \in {"light", "translucent-light"}
DarkFamily(style) == style \in {"dark", "translucent-dark"}

\* 0.5 and 1 as binary64 values, written out
PointFive == [nan |-> FALSE, neg |-> FALSE, m |-> BShl(<<1>>, 52), e |-> -53]
OnePointZero == [nan |-> FALSE, neg |-> FALSE, m |-> BShl(<<1>>, 52), e |-> -52]

\* C1: analyze always returns an object with a style, and when its try block
\* threw (the file could not be decoded, or the region could not be had) the
\* object is exactly { style: 'dark', meanLuminance: 0.5, error: <message> }.
FailureGivesFallback ==
  /\ HasReturned => "style" \in DOMAIN result
  /\ Failed =>
       result = [style |-> "dark", meanLuminance |-> PointFive, error |-> raised]

\* a decodable file whose region the library refused
CropFailed ==
  Failed /\ wallpaper.ok /\ raised = "bgSlice is null" /\ result.error = raised

\* C2: the style of every result, of a call that succeeded or failed, is one
\* of dark, light, translucent-dark, translucent-light, and so never maximized.
StyleIsOneOfFour ==
  HasReturned =>
    result.style \in {"dark", "light", "translucent-dark", "translucent-light"}

\* a successful call that answered translucent-light
TranslucentLightReturned == Succeeded /\ result.style = "translucent-light"

TableStyle(an, T) ==
  LET isDark == FLt(an.meanLuminance, T)
      isBusyTable ==
        \/ FGt(an.luminanceStd, FRatio(45, 255))
        \/ /\ FLt(an.meanLuminance, T)
           /\ FGt(FAdd(an.meanLuminance,
                       FMul(FRatio(1645, 1000), an.luminanceStd)), T)
        \/ FGt(FSub(an.maxLuminosity, an.minLuminosity), PointFive)
  IN  IF isDark /\ isBusyTable THEN "translucent-dark"
      ELSE IF isDark THEN "dark"
      ELSE IF isBusyTable THEN "translucent-light"
      ELSE "light"

\* C4: the style of a successful result is the label the 2x2 table over
\* isDark = mean < T and isBusy = std > 45/255 or (mean < T and
\* mean + 1.645 * std > T) or max - min > 0.5 gives for the result's
\* statistics; the near-boundary test counts on the dark side only.
StyleFollowsTable ==
  Succeeded => result.style = TableStyle(result, FRatio(threshold, 1000))

\* a result that is translucent-dark by the near-boundary test alone
NearBoundaryAlone ==
  /\ Succeeded
  /\ result.style = "translucent-dark"
  /\ ~FGt(result.luminanceStd, FRatio(45, 255))
  /\ ~FGt(FSub(result.maxLuminosity, result.minLuminosity), PointFive)

\* C5: when analyze answers light or translucent-light at the threshold T, it
\* answers light or translucent-light for the same file and panel height at
\* every threshold below T.
LightStaysLightBelow ==
  (HasReturned /\ LightFamily(result.style)) =>
    \A t \in Thresholds :
      t < threshold =>
        LightFamily(analyze(wallpaper, t, stripHeight, emptyRegion).style)

\* a light answer at a threshold that has lower ones, of a file that a higher
\* threshold calls dark
LightBelowDark ==
  /\ Succeeded
  /\ LightFamily(result.style)
  /\ \E t \in Thresholds : t < threshold
  /\ \E t \in Thresholds :
       /\ t > threshold
       /\ DarkFamily(analyze(wallpaper, t, stripHeight, emptyRegion).style)

\* C6: when the analysis answers dark or translucent-dark at the threshold T,
\* it answers dark or translucent-dark for the same file at every threshold
\* below T (lower values make more wallpapers dark).
DarkStaysDarkBelow ==
  (Succeeded /\ DarkFamily(result.style)) =>
    \A t \in Thresholds :
      t < threshold =>
        DarkFamily(analyze(wallpaper, t, stripHeight, emptyRegion).style)

\* C7: in a successful analysis of at least one sample, meanLuminance,
\* minLuminosity and maxLuminosity are in [0, 1] and
\* minLuminosity <= meanLuminance <= maxLuminosity.
MeanBetweenMinAndMax ==
  (Succeeded /\ result.sampleCount > 0) =>
    /\ \A v \in {result.meanLuminance, result.minLuminosity, result.maxLuminosity} :
         FLe(FZero, v) /\ FLe(v, OnePointZero)
    /\ FLe(result.minLuminosity, result.meanLuminance)
    /\ FLe(result.meanLuminance, result.maxLuminosity)

\* C8: luminanceStd is at least 0, and exactly 0 when every sampled pixel has
\* the same colour (here: the picture has one colour).
UniformStdIsZero ==
  (Succeeded /\ result.sampleCount > 0) =>
    /\ FLe(FZero, result.luminanceStd)
    /\ wallpaper.a = wallpaper.b => IsZero(result.luminanceStd)

\* C10: for a decodable image of width W and height H and a panel height P
\* the region asked for has origin (4, 4), width max(1, W - 8) and height
\* max(0, min(P, H) - 4), and a successful result reports that width and
\* height.
CropIsPaddedTopStrip ==
  (HasReturned /\ wallpaper.ok) =>
    /\ request = [x |-> 4, y |-> 4,
                  w |-> Max(1, wallpaper.w - 8),
                  h |-> Max(0, Min(stripHeight, wallpaper.h) - 4)]
    /\ Succeeded => (result.width = request.w /\ result.height = request.h)

\* a successful call on an image wider than the padding and taller than the
\* panel
PanelStripCropped ==
  /\ Succeeded
  /\ wallpaper.w > 9
  /\ stripHeight < wallpaper.h
  /\ result.width = wallpaper.w - 8
  /\ result.height = stripHeight - 4

----------------------------------------------------------------------------
(* Properties of #analyzePixels on any pixbuf.                             *)

Measured == measured # NoResult

\* the statistics of a result: the result without its style
StatisticsOf(res) == [f \in DOMAIN res \ {"style"} |-> res[f]]

\* the pixels the sampling pattern names: even rows, every fourth column
\* from 0 in rows 0, 4, 8, ... and from 2 in rows 2, 6, 10, ...
Checkerboard(w, h) ==
  { px \in (0..(w - 1)) \X (0..(h - 1)) :
      /\ px[2] % 2 = 0
      /\ px[1] % 4 = (IF px[2] % 4 = 0 THEN 0 ELSE 2) }

\* the pixels of a set, rows top to bottom and columns left to right
RECURSIVE InReadingOrder(_)
InReadingOrder(S) ==
  IF S = {} THEN <<>>
  ELSE LET first == CHOOSE px \in S :
                      \A q \in S : px[2] < q[2] \/ (px[2] = q[2] /\ px[1] <= q[1])
       IN  <<first>> \o InReadingOrder(S \ {first})

\* the reading of pixel px of the picture
PixelOf(key, px) == PixelMemo[paint(key.palette, px[1], px[2])]

\* the sums, minima and maxima of the first n pixels of a sequence
RECURSIVE SumOver(_, _, _)
SumOver(key, seq, n) ==
  IF n = 0
  THEN [totalLuminosity |-> FZero, luminositySquaredSum |-> FZero,
        minLuminosity |-> OnePointZero, maxLuminosity |-> FZero,
        minRGB |-> [r |-> 255, g |-> 255, b |-> 255],
        maxRGB |-> [r |-> 0, g |-> 0, b |-> 0], sampleCount |-> 0]
  ELSE accumulate(SumOver(key, seq, n - 1), PixelOf(key, seq[n]))

\* C11: for a region of width w and height h the loops visit exactly the
\* pixels (x, y) with y even, x = 0 mod 4 when y mod 4 = 0 and x = 2 mod 4
\* otherwise, each once; sampleCount is their number, and the statistics are
\* those of exactly these pixels.
SamplesAreCheckerboard ==
  Measured =>
    /\ sampledSet(slice.w, slice.h) = Checkerboard(slice.w, slice.h)
    /\ Len(sampledPixels(slice.w, slice.h)) = Cardinality(Checkerboard(slice.w, slice.h))
    /\ measured.sampleCount = Cardinality(Checkerboard(slice.w, slice.h))
    /\ StatisticsOf(measured) =
         statistics(SumOver(slice, InReadingOrder(Checkerboard(slice.w, slice.h)),
                            Cardinality(Checkerboard(slice.w, slice.h))),
                    slice.w, slice.h)

\* a region with rows of both offsets, the second with fewer samples
BothOffsetsSampled ==
  /\ Measured
  /\ slice.w = 9 /\ slice.h = 5
  /\ sampledPixels(slice.w, slice.h) =
       << <<0, 0>>, <<4, 0>>, <<8, 0>>, <<2, 2>>, <<6, 2>>, <<0, 4>>, <<4, 4>>, <<8, 4>> >>
  /\ measured.sampleCount = 8

FEq(a, b) == ~FLt(a, b) /\ ~FGt(a, b)
IsColour(rgb, c) == rgb = [r |-> c[1], g |-> c[2], b |-> c[3]]

\* C12: a region of one colour with luminosity L is never translucent: its
\* style is dark when L < threshold and light otherwise; all black has mean
\* 0 and std 0, all white has mean 1.
UniformIsPlain ==
  (Measured /\ measured.sampleCount > 0 /\ Len(slice.palette) = 1) =>
    /\ measured.style =
         (IF FLt(PixelMemo[slice.palette[1]].luminosity, FRatio(threshold, 1000))
          THEN "dark" ELSE "light")
    /\ slice.palette = <<Black>> =>
         IsZero(measured.meanLuminance) /\ IsZero(measured.luminanceStd)
    /\ slice.palette = <<White>> => FEq(measured.meanLuminance, OnePointZero)

\* C16: minRGB (maxRGB) is the colour of the first pixel, in the order of
\* sampling, whose luminosity equals minLuminosity (maxLuminosity); a later
\* pixel of equal luminosity does not replace it.
FirstExtremeIsKept ==
  (Measured /\ measured.sampleCount > 0) =>
    LET seq == InReadingOrder(Checkerboard(slice.w, slice.h))
        IsFirst(n, extreme) ==
          /\ FEq(PixelOf(slice, seq[n]).luminosity, extreme)
          /\ \A m \in 1..(n - 1) : ~FEq(PixelOf(slice, seq[m]).luminosity, extreme)
    IN  /\ \E n \in 1..Len(seq) :
             /\ IsFirst(n, measured.minLuminosity)
             /\ IsColour(measured.minRGB, paint(slice.palette, seq[n][1], seq[n][2]))
        /\ \E n \in 1..Len(seq) :
             /\ IsFirst(n, measured.maxLuminosity)
             /\ IsColour(measured.maxRGB, paint(slice.palette, seq[n][1], seq[n][2]))

\* the darkest and the lightest luminosity are each met by two colours, the
\* first sampled pixel has one and a later one the other
TieSeen ==
  /\ Measured
  /\ slice.palette = Tied
  /\ IsColour(measured.minRGB, Blue170) /\ IsColour(measured.maxRGB, Blue170)
  /\ \E px \in Checkerboard(slice.w, slice.h) :
       paint(slice.palette, px[1], px[2]) = Brown55

\* C17: two pixbufs of the same width, height, rowstride and channels that
\* differ only in alpha bytes, or in bytes between rows, or in pixels the
\* loops do not visit, have the same statistics and the same style.
UnreadBytesDoNotMatter ==
  copied # "" => remeasured = measured

\* a copy with other alpha bytes, of a pixbuf that has some and was sampled
AlphaCopyAnalyzed ==
  /\ copied = "alpha"
  /\ slice.alpha
  /\ pixbuf(slice) # copyOf(pixbuf(slice), "alpha")
  /\ remeasured # NoResult
  /\ remeasured.sampleCount > 1

\* C18: every sampled pixel of a successful analysis has image coordinates
\* 4 <= x <= W - 5 and 4 <= y < min(panelHeight, H): none is in the outer 4
\* columns on either side or in the top 4 rows.
SamplesInsideBorder ==
  Succeeded =>
    \A px \in sampledSet(result.width, result.height) :
      /\ 4 <= request.x + px[1]
      /\ request.x + px[1] <= wallpaper.w - 5
      /\ 4 <= request.y + px[2]
      /\ request.y + px[2] < Min(stripHeight, wallpaper.h)

\* C19: for every image of width >= 1 and height >= 1 and every panel height
\* >= 1 the rectangle asked for lies inside the image: 4 + cropWidth <= W and
\* 4 + cropHeight <= H.
CropInsideImage ==
  (HasReturned /\ wallpaper.ok) =>
    /\ request.x + request.w <= wallpaper.w
    /\ request.y + request.h <= wallpaper.h

----------------------------------------------------------------------------
(* Properties of AdaptivePanel.                                            *)

\* the latest step was the timer callback of #onWallpaperChanged
Evaluating == evaluation.branch # "none"

MaximizedShown ==
  (Evaluating /\ isWindowMaximized) => "maximized" \in styleClasses

\* the style the timer callback of #onWallpaperChanged would choose now
freshStyle ==
  styleOfBranch(branchOf(panelMode, isWindowMaximized, wallpaperPath), panelMode,
                analyze(fileAt(disk, wallpaperPath), threshold, stripHeight, emptyRegion))

\* no timeout is pending and no animation is running
Settled == pendingIn(timers) = 0 /\ ~easing

\* C15: while the module is enabled, once every pending timeout has fired the
\* style class on the panel is the style a fresh evaluation of the current
\* settings, wallpaper and #isWindowMaximized would choose.
SettledStyleIsFresh ==
  (enabled /\ Settled) => styleClasses \cap FiveClasses = {freshStyle}

DisabledPanelIsPlain ==
  ~enabled => styleClasses \cap FiveClasses = {}

\* C22: from disable() until the next enable() the module holds no file
\* monitor that is not cancelled, also when a timeout added before disable()
\* fires afterwards.
DisabledHoldsNoMonitor ==
  ~enabled => (fileMonitor = NoMonitor /\ strayMonitors = {})

\* C23: from disable() until the next enable() no handler of the module is
\* connected: none for 'window-created' on the display, none for
\* 'size-changed' or 'destroy' of a window.
DisabledIsDisconnected ==
  ~enabled => (~displayHandler /\ ~window.tracked)

\* C24: whenever #applyStyle(style) returns early because #currentStyle is
\* already style, the panel carries the class style, over any sequence of
\* enable(), disable() and events on the one module.
EarlyReturnIsSound ==
  (Evaluating /\ evaluation.outcome = "kept") => evaluation.applied \in styleClasses

\* C25: the panel carries at most one of the five style classes at any time.
AtMostOneStyleClass ==
  Cardinality(styleClasses \cap FiveClasses) <= 1

\* #applyStyle has put 'light' in the place of another class
StyleReplaced ==
  /\ Evaluating
  /\ evaluation.outcome = "replaced"
  /\ evaluation.applied = "light"
  /\ styleClasses = {"light"}

====
